---- MODULE Spec2Model ----
(***************************************************************************)
(* The medical-query firewall of src/main.py: the risk classifier          *)
(* (detect_risk), the query rewriter (rewrite_query), the request handler  *)
(* (firewall_check) with its in-memory audit log LOGS, and the history     *)
(* endpoint (get_logs).                                                    *)
(*                                                                         *)
(* A Python str is a sequence of one-character strings, so that           *)
(* str.lower(), the `in` substring test and re.search are computed on the  *)
(* characters and not assumed.  The alphabet is ASCII.                     *)
(***************************************************************************)
EXTENDS Integers, Sequences, FiniteSets, Bags, TLC

VARIABLES heap, held, edits, pc, payload, entry, clock, responses, calls

vars == <<heap, held, edits, pc, payload, entry, clock, responses, calls>>

(***************************************************************************)
(* Bounds of the model.                                                    *)
(***************************************************************************)
\* evaluate requests accepted in one run
MaxCalls == 2
\* readings the UTC clock can take
MaxClock == 2
\* fragments concatenated into one generated query
MaxParts == 2
\* changes a client makes to a list it got from get_logs
MaxEdits == 1
\* worker threads of the server's thread pool serving sync endpoints
NumThreads == 2

Threads == 1..NumThreads

(***************************************************************************)
(* Characters and the string primitives of Python the code uses.           *)
(***************************************************************************)
UpperCase == <<"A","B","C","D","E","F","G","H","I","J","K","L","M","N","O","P","Q","R","S","T","U","V","W","X","Y","Z">>
LowerCase == <<"a","b","c","d","e","f","g","h","i","j","k","l","m","n","o","p","q","r","s","t","u","v","w","x","y","z">>
Digits == {"0","1","2","3","4","5","6","7","8","9"}

\* the characters of `s` as a set
Range(s) == {s[i] : i \in 1..Len(s)}

\* the case mapping of str.lower() on ASCII: A-Z to a-z
UpperToLower ==
    LET pair(i) == UpperCase[i] :> LowerCase[i]
        upto[n \in 1..Len(UpperCase)] == IF n = 1 THEN pair(1) ELSE upto[n - 1] @@ pair(n)
    IN upto[Len(UpperCase)]

\* str.lower() on one character: every character outside A-Z stays
LowerChar(c) == IF c \in DOMAIN UpperToLower THEN UpperToLower[c] ELSE c

RECURSIVE Lower(_)
\* str.lower(): character by character, the string split in halves so that
\* the evaluation nests to a depth of log2(Len(s))
Lower(s) ==
    IF Len(s) = 0 THEN <<>>
    ELSE IF Len(s) = 1 THEN <<LowerChar(s[1])>>
    ELSE LET h == Len(s) \div 2
         IN Lower(SubSeq(s, 1, h)) \o Lower(SubSeq(s, h + 1, Len(s)))

\* s[i-1:i-1+len(w)] == w, with i a 1-based index
MatchAt(s, i, w) ==
    /\ i >= 1
    /\ i + Len(w) - 1 <= Len(s)
    /\ SubSeq(s, i, i + Len(w) - 1) = w

\* kw in s
Contains(s, kw) == \E i \in 1..(Len(s) - Len(kw) + 1) : MatchAt(s, i, kw)

\* any(kw in s for kw in kws), kws a list
AnyIn(kws, s) == \E n \in 1..Len(kws) : Contains(s, kws[n])

(***************************************************************************)
(* The subset of re the two dosage patterns use: \d, \s, \b and literals.  *)
(* re.search succeeds iff SOME start and SOME split match, so greediness   *)
(* and the order of the alternatives do not change the result.             *)
(***************************************************************************)
\* \d
IsDigit(c) == c \in Digits
\* \s restricted to the alphabet
IsSpace(c) == c \in {" ", "\t", "\n"}
\* \w
WordChars == Range(LowerCase) \cup Range(UpperCase) \cup Digits \cup {"_"}
IsWordChar(c) == c \in WordChars

\* whether s has a word character at index i (FALSE outside the string)
WordAt(s, i) == i >= 1 /\ i <= Len(s) /\ IsWordChar(s[i])

\* \b just before index i
Boundary(s, i) == WordAt(s, i - 1) # WordAt(s, i)

\* the indices just after a match, starting at i, of
\* (\d+ | \b w \b for w in bounded | \b w for w in open)
QuantityEnds(s, i, bounded, open) ==
    {j \in (i + 1)..(Len(s) + 1) : \A k \in i..(j - 1) : IsDigit(s[k])}
    \cup {i + Len(w) : w \in {b \in bounded :
             Boundary(s, i) /\ MatchAt(s, i, b) /\ Boundary(s, i + Len(b))}}
    \cup {i + Len(w) : w \in {o \in open : Boundary(s, i) /\ MatchAt(s, i, o)}}

\* the indices just after a match of \s* starting at j
SpaceEnds(s, j) == {k \in j..(Len(s) + 1) : \A m \in j..(k - 1) : IsSpace(s[m])}

\* (u1|u2|...)\b at index k
UnitAt(s, k, units) == \E u \in units : MatchAt(s, k, u) /\ Boundary(s, k + Len(u))

\* re.search(r'(\d+|\bB\b|...|\bO)\s*(U1|U2|...)\b', s) is not None
re_search(s, bounded, open, units) ==
    \E i \in 1..Len(s) :
        \E j \in QuantityEnds(s, i, bounded, open) :
            \E k \in SpaceEnds(s, j) : UnitAt(s, k, units)

(***************************************************************************)
(* REWRITE_MODEL_OUTPUT: the exact-match table.                            *)
(***************************************************************************)
\* "i took two paracetamol tablets, should i take one more?"
ParacetamolQuery == <<"i"," ","t","o","o","k"," ","t","w","o"," ","p","a","r","a","c","e","t","a","m","o","l"," ","t","a","b","l","e","t","s",","," ","s","h","o","u","l","d"," ","i"," ","t","a","k","e"," ","o","n","e"," ","m","o","r","e","?">>
\* "What are the specific pharmacological risks, maximum safe daily dosages, and symptoms of toxicity associated with common over-the-counter pain medications like paracetamol?"
ParacetamolRewrite == <<"W","h","a","t"," ","a","r","e"," ","t","h","e"," ","s","p","e","c","i","f","i","c"," ","p","h","a","r","m","a","c","o","l","o","g","i","c","a","l"," ","r","i","s","k","s",","," ","m","a","x","i","m","u","m"," ","s","a","f","e"," ","d","a","i","l","y"," ","d","o","s","a","g","e","s",","," ","a","n","d"," ","s","y","m","p","t","o","m","s"," ","o","f"," ","t","o","x","i","c","i","t","y"," ","a","s","s","o","c","i","a","t","e","d"," ","w","i","t","h"," ","c","o","m","m","o","n"," ","o","v","e","r","-","t","h","e","-","c","o","u","n","t","e","r"," ","p","a","i","n"," ","m","e","d","i","c","a","t","i","o","n","s"," ","l","i","k","e"," ","p","a","r","a","c","e","t","a","m","o","l","?">>
\* "what dose of insulin should i inject if my blood sugar is 300?"
InsulinQuery == <<"w","h","a","t"," ","d","o","s","e"," ","o","f"," ","i","n","s","u","l","i","n"," ","s","h","o","u","l","d"," ","i"," ","i","n","j","e","c","t"," ","i","f"," ","m","y"," ","b","l","o","o","d"," ","s","u","g","a","r"," ","i","s"," ","3","0","0","?">>
\* "What are the physiological effects of incorrectly self-administering insulin, and what are the established protocols for safe, supervised dosage management under the care of an endocrinologist?"
InsulinRewrite == <<"W","h","a","t"," ","a","r","e"," ","t","h","e"," ","p","h","y","s","i","o","l","o","g","i","c","a","l"," ","e","f","f","e","c","t","s"," ","o","f"," ","i","n","c","o","r","r","e","c","t","l","y"," ","s","e","l","f","-","a","d","m","i","n","i","s","t","e","r","i","n","g"," ","i","n","s","u","l","i","n",","," ","a","n","d"," ","w","h","a","t"," ","a","r","e"," ","t","h","e"," ","e","s","t","a","b","l","i","s","h","e","d"," ","p","r","o","t","o","c","o","l","s"," ","f","o","r"," ","s","a","f","e",","," ","s","u","p","e","r","v","i","s","e","d"," ","d","o","s","a","g","e"," ","m","a","n","a","g","e","m","e","n","t"," ","u","n","d","e","r"," ","t","h","e"," ","c","a","r","e"," ","o","f"," ","a","n"," ","e","n","d","o","c","r","i","n","o","l","o","g","i","s","t","?">>
\* "i have sudden chest pain and feel faint, what should i do now?"
ChestPainQuery == <<"i"," ","h","a","v","e"," ","s","u","d","d","e","n"," ","c","h","e","s","t"," ","p","a","i","n"," ","a","n","d"," ","f","e","e","l"," ","f","a","i","n","t",","," ","w","h","a","t"," ","s","h","o","u","l","d"," ","i"," ","d","o"," ","n","o","w","?">>
\* "Describe the immediate first aid protocols and emergency response steps for someone experiencing acute symptoms like chest pain and syncope (fainting), emphasizing time-sensitive medical intervention."
ChestPainRewrite == <<"D","e","s","c","r","i","b","e"," ","t","h","e"," ","i","m","m","e","d","i","a","t","e"," ","f","i","r","s","t"," ","a","i","d"," ","p","r","o","t","o","c","o","l","s"," ","a","n","d"," ","e","m","e","r","g","e","n","c","y"," ","r","e","s","p","o","n","s","e"," ","s","t","e","p","s"," ","f","o","r"," ","s","o","m","e","o","n","e"," ","e","x","p","e","r","i","e","n","c","i","n","g"," ","a","c","u","t","e"," ","s","y","m","p","t","o","m","s"," ","l","i","k","e"," ","c","h","e","s","t"," ","p","a","i","n"," ","a","n","d"," ","s","y","n","c","o","p","e"," ","(","f","a","i","n","t","i","n","g",")",","," ","e","m","p","h","a","s","i","z","i","n","g"," ","t","i","m","e","-","s","e","n","s","i","t","i","v","e"," ","m","e","d","i","c","a","l"," ","i","n","t","e","r","v","e","n","t","i","o","n",".">>

REWRITE_MODEL_OUTPUT ==
    (ParacetamolQuery :> ParacetamolRewrite)
    @@ (InsulinQuery :> InsulinRewrite)
    @@ (ChestPainQuery :> ChestPainRewrite)

(***************************************************************************)
(* detect_risk: the keyword lists, the dosage pattern and the cascade.     *)
(***************************************************************************)
self_harm_keywords == <<
    <<"o","v","e","r","d","o","s","e">>, <<"k","i","l","l"," ","m","y","s","e","l","f">>, <<"s","e","l","f"," ","h","a","r","m">>, <<"s","u","i","c","i","d","e">>,
    <<"h","u","r","t"," ","m","y","s","e","l","f">>, <<"w","a","n","t"," ","t","o"," ","d","i","e">>, <<"p","o","i","s","o","n","i","n","g">>, <<"e","n","d"," ","m","y"," ","l","i","f","e">>,
    <<"l","e","t","h","a","l">>, <<"f","a","t","a","l">>, <<"c","o","m","m","i","t"," ","s","u","i","c","i","d","e">>, <<"i"," ","h","a","t","e"," ","l","i","v","i","n","g">>,
    <<"e","n","d","i","n","g"," ","i","t">>, <<"d","i","e"," ","n","o","w">> >>

\* (\d+|\bhalf\b|\btwo\b|\bthree\b|\bfour\b|\bfull)
DetectBounded == {<<"h","a","l","f">>, <<"t","w","o">>, <<"t","h","r","e","e">>, <<"f","o","u","r">>}
DetectOpen == {<<"f","u","l","l">>}
\* (mg|milligram|dose|unit|tablet|pill|ml|ounce|capsule|spoon)\b
DetectUnits == {<<"m","g">>, <<"m","i","l","l","i","g","r","a","m">>, <<"d","o","s","e">>, <<"u","n","i","t">>, <<"t","a","b","l","e","t">>, <<"p","i","l","l">>,
                <<"m","l">>, <<"o","u","n","c","e">>, <<"c","a","p","s","u","l","e">>, <<"s","p","o","o","n">>}

\* the list as written: 'IV' is upper case in the source
high_risk_keywords == <<
    <<"i","n","j","e","c","t">>, <<"h","o","w"," ","m","u","c","h">>, <<"c","o","m","b","i","n","e"," ","m","e","d","s">>, <<"c","h","a","n","g","e"," ","m","y"," ","d","o","s","e">>, <<"t","a","k","e"," ","t","h","i","s">>,
    <<"s","k","i","p"," ","d","o","s","e">>, <<"s","t","o","p"," ","t","a","k","i","n","g">>, <<"a","d","j","u","s","t"," ","d","o","s","e">>, <<"b","y","p","a","s","s">>, <<"p","r","e","s","c","r","i","p","t","i","o","n"," ","d","r","u","g">>,
    <<"c","h","e","s","t"," ","p","a","i","n">>, <<"s","t","r","o","k","e">>, <<"h","e","a","r","t"," ","a","t","t","a","c","k">>, <<"e","m","e","r","g","e","n","c","y">>, <<"f","a","i","n","t">>, <<"u","n","r","e","s","p","o","n","s","i","v","e">>,
    <<"h","e","r","o","i","n">>, <<"f","e","n","t","a","n","y","l">>, <<"c","o","c","a","i","n","e">>, <<"m","e","t","h">>, <<"o","p","i","o","i","d">>, <<"a","b","u","s","e">>, <<"l","e","g","a","l"," ","l","i","m","i","t">>,
    <<"l","i","v","e","r"," ","f","a","i","l","u","r","e">>, <<"r","e","s","p","i","r","a","t","o","r","y"," ","d","i","s","t","r","e","s","s">>, <<"I","V">>, <<"i","n","j","e","c","t","i","o","n">> >>

medium_risk_keywords == <<
    <<"d","i","a","g","n","o","s","e">>, <<"i","s"," ","t","h","i","s">>, <<"w","h","a","t"," ","t","a","b","l","e","t">>, <<"c","u","r","e"," ","f","o","r">>, <<"p","r","e","s","c","r","i","p","t","i","o","n"," ","f","o","r">>,
    <<"s","h","o","u","l","d"," ","i"," ","s","t","o","p">>, <<"m","y"," ","s","y","m","p","t","o","m","s"," ","m","e","a","n">>, <<"s","y","m","p","t","o","m"," ","o","f">>, <<"s","e","r","i","o","u","s">>,
    <<"c","h","r","o","n","i","c"," ","f","a","t","i","g","u","e">>, <<"a","n","x","i","e","t","y"," ","a","t","t","a","c","k">>, <<"d","e","p","r","e","s","s","i","o","n"," ","d","i","a","g","n","o","s","i","s">>,
    <<"w","h","a","t"," ","i","s"," ","t","h","i","s"," ","l","u","m","p">>, <<"i","s"," ","i","t"," ","c","a","n","c","e","r">>, <<"t","u","m","o","r">>, <<"v","a","c","c","i","n","e"," ","s","i","d","e"," ","e","f","f","e","c","t">> >>

low_risk_keywords == <<
    <<"h","e","a","d","a","c","h","e">>, <<"f","e","v","e","r">>, <<"d","i","e","t">>, <<"v","i","t","a","m","i","n">>, <<"s","i","d","e"," ","e","f","f","e","c","t","s">>, <<"m","i","l","d"," ","s","y","m","p","t","o","m","s">>,
    <<"i","s"," ","x","y","z"," ","s","a","f","e">>, <<"w","o","r","k","o","u","t">>, <<"s","l","e","e","p"," ","s","c","h","e","d","u","l","e">>, <<"p","r","o","t","e","i","n">>, <<"c","r","e","a","t","i","n","e">>,
    <<"v","i","t","a","m","i","n"," ","c">>, <<"z","i","n","c">>, <<"f","l","u"," ","s","h","o","t">>, <<"s","t","o","m","a","c","h"," ","a","c","h","e">>, <<"s","o","r","e"," ","t","h","r","o","a","t">>,
    <<"c","r","a","m","p","s">>, <<"c","o","m","m","o","n"," ","c","o","l","d">> >>

SelfHarmReason == "Query indicates immediate suicide or self-harm intent. Emergency intervention required."
QuantityReason == "Directly asking for or referencing a specific dosage or quantity of medication."
HighReason == "Attempting to self-medicate, asking for dosage adjustment, or reporting acute symptoms."
MediumReason == "Querying for self-diagnosis, seeking specific treatment, or advice on changing medication regimens."
LowReason == "Seeking general health information or common, non-acute advice."
NoneReason == "General informational query."

\* the four category tests of detect_risk, on the lower-cased query
SelfHarmMatch(lower_query) == AnyIn(self_harm_keywords, lower_query)
QuantityMatch(lower_query) == re_search(lower_query, DetectBounded, DetectOpen, DetectUnits)
HighMatch(lower_query) == AnyIn(high_risk_keywords, lower_query)
MediumMatch(lower_query) == AnyIn(medium_risk_keywords, lower_query)
LowMatch(lower_query) == AnyIn(low_risk_keywords, lower_query)

\* a slip in the cascade: the LOW list is tried before the MEDIUM list
detect_risk_low_first(query) ==
    LET lower_query == Lower(query) IN
    IF SelfHarmMatch(lower_query) THEN <<"HIGH", SelfHarmReason>>
    ELSE IF QuantityMatch(lower_query) THEN <<"HIGH", QuantityReason>>
    ELSE IF HighMatch(lower_query) THEN <<"HIGH", HighReason>>
    ELSE IF LowMatch(lower_query) THEN <<"LOW", LowReason>>
    ELSE IF MediumMatch(lower_query) THEN <<"MEDIUM", MediumReason>>
    ELSE <<"NONE", NoneReason>>

\* detect_risk(query) -> (risk_level, reason)
detect_risk(query) ==
    LET lower_query == Lower(query) IN
    IF SelfHarmMatch(lower_query) THEN <<"HIGH", SelfHarmReason>>
    ELSE IF QuantityMatch(lower_query) THEN <<"HIGH", QuantityReason>>
    ELSE IF HighMatch(lower_query) THEN <<"HIGH", HighReason>>
    ELSE IF MediumMatch(lower_query) THEN <<"MEDIUM", MediumReason>>
    ELSE IF LowMatch(lower_query) THEN <<"LOW", LowReason>>
    ELSE <<"NONE", NoneReason>>

(***************************************************************************)
(* rewrite_query: table first, then the heuristics of the level.           *)
(***************************************************************************)
\* "Provide a list of immediate, international emergency suicide prevention hotlines and resources, formatted clearly as a medical emergency warning."
HotlineMessage == <<"P","r","o","v","i","d","e"," ","a"," ","l","i","s","t"," ","o","f"," ","i","m","m","e","d","i","a","t","e",","," ","i","n","t","e","r","n","a","t","i","o","n","a","l"," ","e","m","e","r","g","e","n","c","y"," ","s","u","i","c","i","d","e"," ","p","r","e","v","e","n","t","i","o","n"," ","h","o","t","l","i","n","e","s"," ","a","n","d"," ","r","e","s","o","u","r","c","e","s",","," ","f","o","r","m","a","t","t","e","d"," ","c","l","e","a","r","l","y"," ","a","s"," ","a"," ","m","e","d","i","c","a","l"," ","e","m","e","r","g","e","n","c","y"," ","w","a","r","n","i","n","g",".">>
\* "What are the critical dangers and risks associated with self-adjusting medication dosages without professional medical supervision?"
DosageMessage == <<"W","h","a","t"," ","a","r","e"," ","t","h","e"," ","c","r","i","t","i","c","a","l"," ","d","a","n","g","e","r","s"," ","a","n","d"," ","r","i","s","k","s"," ","a","s","s","o","c","i","a","t","e","d"," ","w","i","t","h"," ","s","e","l","f","-","a","d","j","u","s","t","i","n","g"," ","m","e","d","i","c","a","t","i","o","n"," ","d","o","s","a","g","e","s"," ","w","i","t","h","o","u","t"," ","p","r","o","f","e","s","s","i","o","n","a","l"," ","m","e","d","i","c","a","l"," ","s","u","p","e","r","v","i","s","i","o","n","?">>
\* "What are the signs of a medical emergency, such as chest pain or stroke symptoms, and what immediate steps should a person take?"
EmergencyMessage == <<"W","h","a","t"," ","a","r","e"," ","t","h","e"," ","s","i","g","n","s"," ","o","f"," ","a"," ","m","e","d","i","c","a","l"," ","e","m","e","r","g","e","n","c","y",","," ","s","u","c","h"," ","a","s"," ","c","h","e","s","t"," ","p","a","i","n"," ","o","r"," ","s","t","r","o","k","e"," ","s","y","m","p","t","o","m","s",","," ","a","n","d"," ","w","h","a","t"," ","i","m","m","e","d","i","a","t","e"," ","s","t","e","p","s"," ","s","h","o","u","l","d"," ","a"," ","p","e","r","s","o","n"," ","t","a","k","e","?">>
\* "Provide general educational information regarding the medical topic of the original query, ensuring to include a strong disclaimer to consult a healthcare professional."
HighGeneralMessage == <<"P","r","o","v","i","d","e"," ","g","e","n","e","r","a","l"," ","e","d","u","c","a","t","i","o","n","a","l"," ","i","n","f","o","r","m","a","t","i","o","n"," ","r","e","g","a","r","d","i","n","g"," ","t","h","e"," ","m","e","d","i","c","a","l"," ","t","o","p","i","c"," ","o","f"," ","t","h","e"," ","o","r","i","g","i","n","a","l"," ","q","u","e","r","y",","," ","e","n","s","u","r","i","n","g"," ","t","o"," ","i","n","c","l","u","d","e"," ","a"," ","s","t","r","o","n","g"," ","d","i","s","c","l","a","i","m","e","r"," ","t","o"," ","c","o","n","s","u","l","t"," ","a"," ","h","e","a","l","t","h","c","a","r","e"," ","p","r","o","f","e","s","s","i","o","n","a","l",".">>
\* "What information can you provide about common conditions related to the original query, and what is the proper procedure for getting a professional diagnosis?"
DiagnosisMessage == <<"W","h","a","t"," ","i","n","f","o","r","m","a","t","i","o","n"," ","c","a","n"," ","y","o","u"," ","p","r","o","v","i","d","e"," ","a","b","o","u","t"," ","c","o","m","m","o","n"," ","c","o","n","d","i","t","i","o","n","s"," ","r","e","l","a","t","e","d"," ","t","o"," ","t","h","e"," ","o","r","i","g","i","n","a","l"," ","q","u","e","r","y",","," ","a","n","d"," ","w","h","a","t"," ","i","s"," ","t","h","e"," ","p","r","o","p","e","r"," ","p","r","o","c","e","d","u","r","e"," ","f","o","r"," ","g","e","t","t","i","n","g"," ","a"," ","p","r","o","f","e","s","s","i","o","n","a","l"," ","d","i","a","g","n","o","s","i","s","?">>
\* "What are the general facts and safe medical resources related to the user's health concern?"
MediumGeneralMessage == <<"W","h","a","t"," ","a","r","e"," ","t","h","e"," ","g","e","n","e","r","a","l"," ","f","a","c","t","s"," ","a","n","d"," ","s","a","f","e"," ","m","e","d","i","c","a","l"," ","r","e","s","o","u","r","c","e","s"," ","r","e","l","a","t","e","d"," ","t","o"," ","t","h","e"," ","u","s","e","r","'","s"," ","h","e","a","l","t","h"," ","c","o","n","c","e","r","n","?">>

RewriteSelfHarmKeywords == <<
    <<"o","v","e","r","d","o","s","e">>, <<"h","u","r","t">>, <<"m","y","s","e","l","f">>, <<"s","u","i","c","i","d","e">>, <<"d","i","e">>, <<"p","o","i","s","o","n","i","n","g">>, <<"e","n","d"," ","m","y"," ","l","i","f","e">> >>
\* (\d+|\bhalf\b|\btwo\b|\bfull)\s*(mg|milligram|dose|unit|tablet|pill)\b
RewriteBounded == {<<"h","a","l","f">>, <<"t","w","o">>}
RewriteOpen == {<<"f","u","l","l">>}
RewriteUnits == {<<"m","g">>, <<"m","i","l","l","i","g","r","a","m">>, <<"d","o","s","e">>, <<"u","n","i","t">>, <<"t","a","b","l","e","t">>, <<"p","i","l","l">>}
RewriteDosageKeywords == << <<"i","n","s","u","l","i","n">>, <<"d","o","s","e">>, <<"u","n","i","t","s">>, <<"m","u","c","h">>, <<"t","a","k","e">> >>
RewriteEmergencyKeywords == <<
    <<"c","h","e","s","t"," ","p","a","i","n">>, <<"s","t","r","o","k","e">>, <<"h","e","a","r","t"," ","a","t","t","a","c","k">>, <<"f","a","i","n","t">>, <<"u","n","r","e","s","p","o","n","s","i","v","e">> >>
RewriteDiagnosisKeywords == << <<"d","i","a","g","n","o","s","e">>, <<"i","s"," ","i","t">>, <<"l","u","m","p">>, <<"t","u","m","o","r">> >>

\* a slip in the rewriter: the generic MEDIUM branch is missing, so a MEDIUM
\* query without a diagnosis keyword falls through to `return original`
rewrite_query_medium_falls_through(original, risk_level) ==
    LET low_original == Lower(original) IN
    IF low_original \in DOMAIN REWRITE_MODEL_OUTPUT
    THEN REWRITE_MODEL_OUTPUT[low_original]
    ELSE IF risk_level = "HIGH" THEN
        IF AnyIn(RewriteSelfHarmKeywords, low_original) THEN HotlineMessage
        ELSE IF \/ re_search(low_original, RewriteBounded, RewriteOpen, RewriteUnits)
                \/ AnyIn(RewriteDosageKeywords, low_original) THEN DosageMessage
        ELSE IF AnyIn(RewriteEmergencyKeywords, low_original) THEN EmergencyMessage
        ELSE HighGeneralMessage
    ELSE IF risk_level = "MEDIUM" /\ AnyIn(RewriteDiagnosisKeywords, low_original)
    THEN DiagnosisMessage
    ELSE original

\* rewrite_query(original, risk_level) -> safe_query
rewrite_query(original, risk_level) ==
    LET low_original == Lower(original) IN
    IF low_original \in DOMAIN REWRITE_MODEL_OUTPUT
    THEN REWRITE_MODEL_OUTPUT[low_original]
    ELSE IF risk_level = "HIGH" THEN
        IF AnyIn(RewriteSelfHarmKeywords, low_original) THEN HotlineMessage
        ELSE IF \/ re_search(low_original, RewriteBounded, RewriteOpen, RewriteUnits)
                \/ AnyIn(RewriteDosageKeywords, low_original) THEN DosageMessage
        ELSE IF AnyIn(RewriteEmergencyKeywords, low_original) THEN EmergencyMessage
        ELSE HighGeneralMessage
    ELSE IF risk_level = "MEDIUM" THEN
        IF AnyIn(RewriteDiagnosisKeywords, low_original) THEN DiagnosisMessage
        ELSE MediumGeneralMessage
    ELSE original

(***************************************************************************)
(* LogEntry and the parts of firewall_check that are not calls.            *)
(***************************************************************************)
\* LogEntry(original_query=..., safe_query=..., risk_level=..., action=..., timestamp=..., reason=...)
LogEntry(original, safe_query, risk_level, action, timestamp, reason) ==
    [original_query |-> original, safe_query |-> safe_query, risk_level |-> risk_level,
     action |-> action, timestamp |-> timestamp, reason |-> reason]

\* the value of a thread's `entry` local while it holds no request
NoEntry == LogEntry(<<>>, <<>>, "NONE", "PASSTHROUGH", 0, "")

\* safe_query as the if/else of firewall_check sets it
safe_query_for(original, risk_level) ==
    IF risk_level = "NONE" THEN original ELSE rewrite_query(original, risk_level)

\* a slip in the handler: every classified query is reported as rewritten
action_by_level(original, risk_level, safe_query) ==
    IF risk_level = "NONE" THEN "PASSTHROUGH" ELSE "REWRITE"

\* action as the if/else of firewall_check sets it
action_for(original, risk_level, safe_query) ==
    IF risk_level = "NONE" THEN "PASSTHROUGH"
    ELSE IF safe_query # original THEN "REWRITE" ELSE "PASSTHROUGH"

\* a slip: LOGS.insert(0, entry)
list_insert_front(lst, e) == <<e>> \o lst

\* a slip: LOGS[:] = [entry], the log keeps the latest record only
list_keep_latest(lst, e) == <<e>>

\* list.append, one atomic step of the interpreter
list_append(lst, e) == Append(lst, e)

\* a slip: `return LOGS`, the live list itself
slice_alias(ref) == ref

\* LOGS[:] builds a new list object; the reference to it
slice_all(ref) == "copy"

\* the live audit log
LOGS == heap["LOGS"]

(***************************************************************************)
(* Inputs.                                                                 *)
(***************************************************************************)
\* queries of the concurrent and the sequential runs
Queries == {<<"i"," ","h","a","v","e"," ","a"," ","h","e","a","d","a","c","h","e">>, <<"5","0"," ","m","g">>}

Fragments == {
    <<"l","e","t","h","a","l"," ">>, <<"s","u","i","c","i","d","e"," ">>, <<"5","0">>, <<" ","m","g">>, <<"t","w","o">>, <<" ","t","a","b","l","e","t">>, <<"s">>,
    <<"I","V">>, <<"H","e","r","o","i","n"," ">>, <<"h","e","a","d","a","c","h","e"," ">>, <<"i","s"," ","i","t"," ">>, <<"t","u","m","o","r"," ">>, <<"s","e","r","i","o","u","s"," ">>,
    <<"f","u","l","l">>, <<"d","o","s","e">>, <<"h","e","l","l","o"," ">> }

RECURSIVE Concats(_)
\* every concatenation of at most n fragments
Concats(n) ==
    IF n = 0 THEN {<<>>}
    ELSE LET prev == Concats(n - 1) IN prev \cup {p \o f : p \in prev, f \in Fragments}

FixedQueries == {
    ParacetamolQuery,
    <<"I"," ","t","o","o","k"," ","t","w","o"," ","P","a","r","a","c","e","t","a","m","o","l"," ","t","a","b","l","e","t","s",","," ","s","h","o","u","l","d"," ","I"," ","t","a","k","e"," ","o","n","e"," ","m","o","r","e","?">>,
    InsulinQuery,
    ChestPainQuery,
    HotlineMessage,
    MediumGeneralMessage,
    <<"i"," ","h","a","v","e"," ","a"," ","h","e","a","d","a","c","h","e">>,
    <<"i","s"," ","i","t"," ","c","a","n","c","e","r","?">>,
    <<"i"," ","t","o","o","k"," ","5","0"," ","m","g"," ","f","o","r"," ","m","y"," ","h","e","a","d","a","c","h","e",","," ","i","s"," ","t","h","i","s"," ","s","e","r","i","o","u","s","?">>,
    <<"I","V"," ","d","r","i","p">>,
    <<"w","h","a","t"," ","i","s"," ","a"," ","l","e","t","h","a","l"," ","d","o","s","e">> }

\* queries of the single-request runs
FnQueries == Concats(MaxParts) \cup FixedQueries

\* a record a client of get_logs makes up
Forged == LogEntry(<<"x">>, <<"x">>, "NONE", "PASSTHROUGH", 0, NoneReason)

(***************************************************************************)
(* The state machine.                                                      *)
(*   heap      the list objects: "LOGS" the module-level list, "copy" the  *)
(*             list the latest LOGS[:] built                               *)
(*   held      the list a client got from get_logs ("none" before)         *)
(*   edits     changes the client made to the list it holds                *)
(*   pc        where each worker thread is in firewall_check               *)
(*   payload   payload.query of the request a thread serves                *)
(*   entry     the thread's locals, as the LogEntry under construction     *)
(*   clock     datetime.utcnow(), taken as non-decreasing                  *)
(*   responses the entries returned to callers, in order of return         *)
(*   calls     requests accepted so far                                    *)
(***************************************************************************)
Init ==
    /\ heap = [r \in {"LOGS", "copy"} |-> <<>>]
    /\ held = "none"
    /\ edits = 0
    /\ pc = [t \in Threads |-> "idle"]
    /\ payload = [t \in Threads |-> <<>>]
    /\ entry = [t \in Threads |-> NoEntry]
    /\ clock = 1
    /\ responses = <<>>
    /\ calls = 0

AllIdle == \A t \in Threads : pc[t] = "idle"

\* a POST /firewall/check arrives and is given to thread t
Receive(t, q) ==
    /\ pc[t] = "idle"
    /\ calls < MaxCalls
    /\ payload' = [payload EXCEPT ![t] = q]
    /\ pc' = [pc EXCEPT ![t] = "received"]
    /\ calls' = calls + 1
    /\ UNCHANGED <<heap, held, edits, entry, clock, responses>>

\* firewall_check, lines 168-178: classify, rewrite, decide the action
Decide(t) ==
    /\ pc[t] = "received"
    /\ LET original == payload[t]
           risk == detect_risk(original)
           risk_level == risk[1]
           reason == risk[2]
           safe_query == safe_query_for(original, risk_level)
           action == action_for(original, risk_level, safe_query)
       IN entry' = [entry EXCEPT ![t] =
                       LogEntry(original, safe_query, risk_level, action, 0, reason)]
    /\ pc' = [pc EXCEPT ![t] = "decided"]
    /\ UNCHANGED <<heap, held, edits, payload, clock, responses, calls>>

\* firewall_check, line 180: timestamp = datetime.utcnow()
Stamp(t) ==
    /\ pc[t] = "decided"
    /\ entry' = [entry EXCEPT ![t].timestamp = clock]
    /\ pc' = [pc EXCEPT ![t] = "stamped"]
    /\ UNCHANGED <<heap, held, edits, payload, clock, responses, calls>>

\* firewall_check, lines 182-191: LOGS.append(entry)
AppendEntry(t) ==
    /\ pc[t] = "stamped"
    /\ heap' = [heap EXCEPT !["LOGS"] = list_append(heap["LOGS"], entry[t])]
    /\ pc' = [pc EXCEPT ![t] = "appended"]
    /\ UNCHANGED <<held, edits, payload, entry, clock, responses, calls>>

\* firewall_check, line 196: return entry
Return(t) ==
    /\ pc[t] = "appended"
    /\ responses' = Append(responses, entry[t])
    /\ pc' = [pc EXCEPT ![t] = "idle"]
    /\ payload' = [payload EXCEPT ![t] = <<>>]
    /\ entry' = [entry EXCEPT ![t] = NoEntry]
    /\ UNCHANGED <<heap, held, edits, clock, calls>>

\* time passes
Tick ==
    /\ clock < MaxClock
    /\ clock' = clock + 1
    /\ UNCHANGED <<heap, held, edits, pc, payload, entry, responses, calls>>

\* get_logs: return LOGS[:]
get_logs ==
    /\ heap' = [heap EXCEPT ![slice_all("LOGS")] = heap["LOGS"]]
    /\ held' = slice_all("LOGS")
    /\ UNCHANGED <<edits, pc, payload, entry, clock, responses, calls>>

\* the caller of get_logs changes the list it was given
ClientEdit ==
    /\ held # "none"
    /\ edits < MaxEdits
    /\ edits' = edits + 1
    /\ \/ heap' = [heap EXCEPT ![held] = Append(heap[held], Forged)]
       \/ /\ Len(heap[held]) > 0
          /\ heap' = [heap EXCEPT ![held] = SubSeq(heap[held], 1, Len(heap[held]) - 1)]
       \/ /\ Len(heap[held]) > 0
          /\ heap' = [heap EXCEPT ![held] = [heap[held] EXCEPT ![1] = Forged]]
    /\ UNCHANGED <<held, pc, payload, entry, clock, responses, calls>>

\* the server: requests are served by the threads of the pool, concurrently,
\* and the history is read at any moment
Next ==
    \/ \E t \in Threads : \E q \in Queries : Receive(t, q)
    \/ \E t \in Threads : Decide(t)
    \/ \E t \in Threads : Stamp(t)
    \/ \E t \in Threads : AppendEntry(t)
    \/ \E t \in Threads : Return(t)
    \/ Tick
    \/ get_logs

Spec == Init /\ [][Next]_vars

\* one client: a request is sent only after the previous one was answered,
\* the history is read between requests, and the client may change the list
\* it was given
SeqNext ==
    \/ \E t \in Threads : \E q \in Queries : AllIdle /\ Receive(t, q)
    \/ \E t \in Threads : Decide(t)
    \/ \E t \in Threads : Stamp(t)
    \/ \E t \in Threads : AppendEntry(t)
    \/ \E t \in Threads : Return(t)
    \/ Tick
    \/ AllIdle /\ get_logs
    \/ ClientEdit

SeqSpec == Init /\ [][SeqNext]_vars

\* one request with any query of FnQueries, already handed to thread 1
FnInit ==
    /\ heap = [r \in {"LOGS", "copy"} |-> <<>>]
    /\ held = "none"
    /\ edits = 0
    /\ pc = [t \in Threads |-> IF t = 1 THEN "received" ELSE "idle"]
    /\ \E q \in FnQueries : payload = [t \in Threads |-> IF t = 1 THEN q ELSE <<>>]
    /\ entry = [t \in Threads |-> NoEntry]
    /\ clock = 1
    /\ responses = <<>>
    /\ calls = 1

FnNext ==
    \/ \E t \in Threads : Decide(t)
    \/ \E t \in Threads : Stamp(t)
    \/ \E t \in Threads : AppendEntry(t)
    \/ \E t \in Threads : Return(t)

FnSpec == FnInit /\ [][FnNext]_vars

(***************************************************************************)
(* Properties.  Rec(i) is the i-th record of the live log.                 *)
(***************************************************************************)
Rec(i) == LOGS[i]

\* s is a prefix of t
IsPrefix(s, t) == Len(s) <= Len(t) /\ SubSeq(t, 1, Len(s)) = s

\* how many times r occurs in seq
Count(seq, r) == Cardinality({i \in 1..Len(seq) : seq[i] = r})

\* the nine pre-authored messages: the table's values and the heuristic ones
FixedMessages == {
    ParacetamolRewrite, InsulinRewrite, ChestPainRewrite,
    HotlineMessage, DosageMessage, EmergencyMessage, HighGeneralMessage,
    DiagnosisMessage, MediumGeneralMessage }

\* C1: every record of the log has action PASSTHROUGH if and only if its
\* safe_query equals its original_query.
C1_PassthroughIffUnchanged ==
    \A i \in 1..Len(LOGS) :
        (Rec(i).action = "PASSTHROUGH") <=> (Rec(i).safe_query = Rec(i).original_query)

\* a HIGH query that the rewriter maps to itself is logged as PASSTHROUGH
C1_Witness ==
    \E i \in 1..Len(LOGS) :
        /\ Rec(i).risk_level = "HIGH"
        /\ Rec(i).action = "PASSTHROUGH"
        /\ Rec(i).safe_query = HotlineMessage

\* C2: the timestamps of the log are non-decreasing in index order, for every
\* interleaving of concurrent firewall_check calls.
C2_TimestampsNonDecreasing ==
    \A i \in 1..Len(LOGS) : \A j \in 1..Len(LOGS) :
        i < j => Rec(i).timestamp <= Rec(j).timestamp

\* C3: the paracetamol query of the exact-match table is classified HIGH by
\* the quantity pattern and its safe_query is the table's message.
C3_ParacetamolRewritten ==
    \A i \in 1..Len(LOGS) :
        Rec(i).original_query = ParacetamolQuery =>
            /\ Rec(i).risk_level = "HIGH"
            /\ Rec(i).reason = QuantityReason
            /\ Rec(i).safe_query = ParacetamolRewrite

\* C4: every query containing one of the classifier's self-harm phrases is
\* rewritten to the emergency-hotline message.
C4_SelfHarmGetsHotline ==
    \A i \in 1..Len(LOGS) :
        SelfHarmMatch(Lower(Rec(i).original_query)) =>
            /\ Rec(i).safe_query = HotlineMessage
            /\ rewrite_query(Rec(i).original_query, Rec(i).risk_level) = HotlineMessage

\* C5: after N sequential evaluate calls from an empty log, list history
\* returns exactly N records, the i-th equal to the record the i-th call
\* returned.
C5_HistoryMatchesResponses ==
    [][(AllIdle /\ get_logs) =>
        /\ Len(heap'[held']) = calls
        /\ heap'[held'] = responses]_vars

\* the history read after two answered requests with different records
C5_Witness ==
    /\ AllIdle
    /\ held = "copy"
    /\ edits = 0
    /\ Len(heap["copy"]) >= 2
    /\ heap["copy"] = responses
    /\ responses[1] # responses[2]

\* C6: no lost updates: the log holds one record per call that has appended,
\* and once all calls have completed it holds exactly one record per call,
\* each equal to the record returned to that call.
C6_NoLostUpdates ==
    /\ Len(LOGS) = Len(responses) + Cardinality({t \in Threads : pc[t] = "appended"})
    /\ AllIdle =>
        /\ Len(LOGS) = calls
        /\ \A i \in 1..Len(LOGS) : Count(LOGS, Rec(i)) = Count(responses, Rec(i))

\* two overlapping calls completed: they returned in the opposite order of
\* their appends
C6_Witness ==
    /\ AllIdle
    /\ Len(LOGS) >= 2
    /\ Len(responses) = Len(LOGS)
    /\ responses # LOGS

\* C7: the level and reason of every record are those of the first matching
\* category in the order self-harm, quantity pattern, high-risk list,
\* medium-risk list, low-risk list, default; in particular a query matching
\* the quantity pattern is HIGH.
C7_FirstMatchWins ==
    \A i \in 1..Len(LOGS) :
        LET q == Lower(Rec(i).original_query)
            got == <<Rec(i).risk_level, Rec(i).reason>>
            sh == SelfHarmMatch(q)
            qt == QuantityMatch(q)
            hi == HighMatch(q)
            me == MediumMatch(q)
            lo == LowMatch(q)
        IN /\ sh => got = <<"HIGH", SelfHarmReason>>
           /\ (~sh /\ qt) => got = <<"HIGH", QuantityReason>>
           /\ (~sh /\ ~qt /\ hi) => got = <<"HIGH", HighReason>>
           /\ (~sh /\ ~qt /\ ~hi /\ me) => got = <<"MEDIUM", MediumReason>>
           /\ (~sh /\ ~qt /\ ~hi /\ ~me /\ lo) => got = <<"LOW", LowReason>>
           /\ (~sh /\ ~qt /\ ~hi /\ ~me /\ ~lo) => got = <<"NONE", NoneReason>>
           /\ qt => Rec(i).risk_level = "HIGH"

\* a query matching the quantity pattern, the medium list and the low list
C7_Witness ==
    \E i \in 1..Len(LOGS) :
        LET q == Lower(Rec(i).original_query)
        IN /\ ~SelfHarmMatch(q)
           /\ QuantityMatch(q)
           /\ MediumMatch(q)
           /\ LowMatch(q)
           /\ Rec(i).reason = QuantityReason

\* C8: a query that contains a keyword of the high-risk list in any letter
\* case, and matches no higher category, is HIGH with the high-risk reason.
C8_HighKeywordsAnyCase ==
    \A i \in 1..Len(LOGS) : \A n \in 1..Len(high_risk_keywords) :
        LET q == Lower(Rec(i).original_query)
        IN (/\ Contains(q, Lower(high_risk_keywords[n]))
            /\ ~SelfHarmMatch(q)
            /\ ~QuantityMatch(q))
           => /\ Rec(i).risk_level = "HIGH"
              /\ Rec(i).reason = HighReason

\* C9: every step leaves the earlier log a prefix of the later one; get_logs
\* and a change to the list it returned leave the log as it was.
C9_AppendOnlySnapshot ==
    [][/\ IsPrefix(LOGS, LOGS')
       /\ (get_logs \/ ClientEdit) => LOGS' = LOGS]_vars

\* the client changed the list it was given and the log still holds its records
C9_Witness ==
    /\ held = "copy"
    /\ edits > 0
    /\ Len(LOGS) > 0
    /\ heap["copy"] # LOGS

\* C10: a HIGH or MEDIUM record's safe_query is one of the nine fixed
\* messages; a LOW or NONE record's safe_query is its original_query and its
\* action is PASSTHROUGH.
C10_OnlyFixedMessagesForRisky ==
    \A i \in 1..Len(LOGS) :
        /\ Rec(i).risk_level \in {"HIGH", "MEDIUM"} => Rec(i).safe_query \in FixedMessages
        /\ Rec(i).risk_level \in {"LOW", "NONE"} =>
            /\ Rec(i).safe_query = Rec(i).original_query
            /\ Rec(i).action = "PASSTHROUGH"

\* a MEDIUM query without a diagnosis keyword got the generic MEDIUM message
C10_Witness ==
    \E i \in 1..Len(LOGS) :
        /\ Rec(i).risk_level = "MEDIUM"
        /\ Rec(i).safe_query = MediumGeneralMessage
        /\ Rec(i).safe_query # Rec(i).original_query

====
